---- MODULE Spec2Model ----
(***************************************************************************)
(* Model of app.py: a Flask service with four handlers (send_sms,          *)
(* receive_sms, status_callback, get_all_messages) over one table,         *)
(* Message, and one external provider client.                              *)
(*                                                                         *)
(* Each handler is an operator from (table, request) to the table after    *)
(* the request and the HTTP response.  app.run serves requests in threads, *)
(* so a handler is one step for each access it makes to the table or the   *)
(* provider: receive_sms (one INSERT) and get_all_messages (one SELECT)    *)
(* are one step; send_sms is two, up to the provider call and from its     *)
(* return on; status_callback is two, the lookup and the UPDATE.           *)
(***************************************************************************)
EXTENDS Integers, Sequences, FiniteSets, Bags, TLC

VARIABLES
    store,    \* the message table: rows in id order (row i has id i)
    pending,  \* the send requests waiting in client.messages.create (a bag)
    loaded,   \* the status callbacks between lookup and commit (a bag)
    pre,      \* the table before the last step
    last      \* the last step: the request and, once given, the response

vars == <<store, pending, loaded, pre, last>>

\* ------------------------------------------------------------- bounds
\* The service with one request in progress while others are answered.
MaxRows == 1          \* rows the table may hold
MaxInProgress == 1    \* requests waiting in the provider call, or between
                      \* lookup and UPDATE, at a time
MaxClock == 0         \* largest reading of the wall clock, in clock ticks

\* The service with requests in progress that overlap.
MoreRows == 2
MoreInProgress == 2
MoreClock == 1

\* The inbound handler on every shape of request.
MaxInbound == 1       \* rows the table may hold

TicksPerSecond == 2   \* clock readings per second of the formatted timestamp

\* ------------------------------------------------------ Python values
\* Python None, an absent form field, SQL NULL.
None == "<None>"

TWILIO_NUMBER == "+15550000000"

\* The TwiML reply of receive_sms, str(resp): one fixed text (its check mark
\* and dash written in ASCII here).
ACK == "<Response><Message>Thanks - we received your message.</Message></Response>"

\* The decimal text of a sequence of digits.
RECURSIVE Digits(_)
Digits(d) == IF d = <<>> THEN "" ELSE ToString(Head(d)) \o Digits(Tail(d))

\* The values a request carries, as json.loads and request.form.get return
\* them: a string, an int or a boolean (v: its text; n: an int's sign and
\* digits), None, a list and a dict (m: the members, a list's under "0",
\* "1", ...).  Raised stands for an exception.
NoMembers == [k \in {} |-> None]
NoDigits == [neg |-> FALSE, digits |-> <<>>]
JStr(s) == [t |-> "str", v |-> s, m |-> NoMembers, n |-> NoDigits]
JNum(neg, digits) ==
    [t |-> "num", v |-> (IF neg THEN "-" ELSE "") \o Digits(digits), m |-> NoMembers,
     n |-> [neg |-> neg, digits |-> digits]]
JBool(b) == [t |-> "bool", v |-> IF b THEN "1" ELSE "0", m |-> NoMembers, n |-> NoDigits]
JNull == [t |-> "null", v |-> None, m |-> NoMembers, n |-> NoDigits]
JList(members) == [t |-> "list", v |-> None, m |-> members, n |-> NoDigits]
JObj(members) == [t |-> "obj", v |-> None, m |-> members, n |-> NoDigits]
Raised == [t |-> "raise", v |-> None, m |-> NoMembers, n |-> NoDigits]
EmptyDict == JObj(NoMembers)
EmptyList == JList(NoMembers)

\* bool(x): None, "", 0, False, [] and {} are false.
Truthy(x) ==
    CASE x.t = "str" -> x.v # ""
      [] x.t = "num" -> x.n.digits # <<0>>
      [] x.t = "bool" -> x.v # "0"
      [] x.t \in {"list", "obj"} -> DOMAIN x.m # {}
      [] OTHER -> FALSE

\* x or y
Or(x, y) == IF Truthy(x) THEN x ELSE y

\* d.get(key, default); anything but a dict has no .get (AttributeError).
dict_get(d, key, default) ==
    IF d.t # "obj" THEN Raised
    ELSE IF key \in DOMAIN d.m THEN d.m[key]
    ELSE default

\* d.get(key)
param(d, key) == dict_get(d, key, JNull)

\* json.loads(text) / request.get_json(force=True): the document the text
\* denotes; text that is no JSON (the empty text too) raises.
json_loads(text) == IF text.kind = "json" THEN text.doc ELSE Raised

\* bool(payload) for the Payload form field: absent and "" are false.
payload_given(payload) == payload.kind \notin {"absent", "empty"}

\* request.form.get(key): a string or None.
form_get(form, key) == IF form[key] = None THEN JNull ELSE JStr(form[key])

\* ---------------------------------------------------------- the table
\* Message(...): from_number, to_number and body as passed; a status of
\* None leaves the column to its default, "received"; error_code has no
\* default and is never passed.
Message(sid, from_number, to_number, body, direction, status) ==
    [sid |-> sid, from_number |-> from_number, to_number |-> to_number,
     body |-> body, direction |-> direction,
     status |-> IF status = None THEN "received" ELSE status,
     error_code |-> None]

\* What a String/Text column holds for a bound value: the string, NULL for
\* None, the text of a number, "1"/"0" for a boolean.
sql_bind(x) == IF x.t \in {"str", "num", "bool"} THEN x.v ELSE None

\* The digits of the largest int SQLite holds, 2^63 - 1, and of the
\* smallest, -2^63.
MaxInt64 == <<9, 2, 2, 3, 3, 7, 2, 0, 3, 6, 8, 5, 4, 7, 7, 5, 8, 0, 7>>
MinInt64 == <<9, 2, 2, 3, 3, 7, 2, 0, 3, 6, 8, 5, 4, 7, 7, 5, 8, 0, 8>>

\* a <= b for two sequences of digits without leading zeros.
digits_leq(a, b) ==
    \/ Len(a) < Len(b)
    \/ /\ Len(a) = Len(b)
       /\ \/ a = b
          \/ \E i \in 1..Len(a) :
                /\ a[i] < b[i]
                /\ \A j \in 1..(i - 1) : a[j] = b[j]

\* Whether an int fits SQLite's 64-bit INTEGER.
fits_int64(n) == digits_leq(n.digits, IF n.neg THEN MinInt64 ELSE MaxInt64)

\* The strings of the model that hold a surrogate code point on its own,
\* as json.loads makes of "\ud800"; they have no UTF-8 encoding.
LoneSurrogates == {"<U+D800>"}

\* Whether the sqlite3 driver binds a value: None, a boolean, an int of at
\* most 64 bits (else OverflowError), a string that encodes to UTF-8 (else
\* UnicodeEncodeError); a list or a dict is refused.
sqlite_binds(x) ==
    CASE x.t = "str" -> x.v \notin LoneSurrogates
      [] x.t = "num" -> fits_int64(x.n)
      [] x.t \in {"bool", "null"} -> TRUE
      [] OTHER -> FALSE

\* Whether db.session.commit() of a new row succeeds: it raises when a
\* value of the row cannot be bound.
can_commit(msg) ==
    \A x \in {msg.from_number, msg.to_number, msg.body} : sqlite_binds(x)

\* db.session.add(msg); db.session.commit() when it succeeds: the row gets
\* the next id and timestamp = datetime.utcnow().
db_add_commit(db, msg, now) ==
    Append(db, [id |-> Len(db) + 1, sid |-> msg.sid,
                from_number |-> sql_bind(msg.from_number),
                to_number |-> sql_bind(msg.to_number),
                body |-> sql_bind(msg.body),
                direction |-> msg.direction, status |-> msg.status,
                error_code |-> msg.error_code, timestamp |-> now])

\* Message.query.filter_by(sid=sid).first(): the id of the first row whose
\* sid equals sid, 0 when there is none.  filter_by(sid=None) compiles to
\* "sid IS NULL", so None matches the rows stored with sid NULL.  Without
\* ORDER BY, SQLite returns the matching row of lowest id.
first_by_sid(db, sid) ==
    LET ids == {i \in 1..Len(db) : db[i].sid = sid}
    IN  IF ids = {} THEN 0 ELSE CHOOSE i \in ids : \A j \in ids : i <= j

\* msg.status = status; msg.error_code = error_code: the attributes the
\* session marks as changed, those whose new value differs from the one
\* loaded.
set_status(msg, status, error_code) ==
    {a \in {"status"} : status # msg.status}
        \cup {a \in {"error_code"} : error_code # msg.error_code}

\* db.session.commit() of a changed row: UPDATE ... WHERE id = ?, setting
\* the changed attributes and no other, on the row as the table holds it.
update_by_id(db, id, changed, status, error_code) ==
    [db EXCEPT ![id] =
        [@ EXCEPT !.status = IF "status" \in changed THEN status ELSE @,
                  !.error_code = IF "error_code" \in changed THEN error_code ELSE @]]

\* A handler's outcome: the table after it, the response, the provider calls.
Result(db, code, body, calls) ==
    [db |-> db, code |-> code, body |-> body, calls |-> calls]

\* An exception no handler catches: Flask answers 500, the session is
\* rolled back.
ServerError(db, calls) == Result(db, 500, None, calls)

\* ------------------------------------------------------------ send_sms
\* if not to or not body
missing_field(to, body) == ~Truthy(to) \/ ~Truthy(body)

\* The response to a request body get_json cannot decode: Flask's 400 page.
BadRequest == [html |-> "400 Bad Request"]

\* send_sms up to the provider call.  call: whether client.messages.create
\* is called (with to and body); if not, code and body are the response.
\* A body that is no JSON is refused by get_json (400); one that is JSON but
\* no object makes data.get raise (500).
send_sms_request(data) ==
    LET doc == json_loads(data)
        to == param(doc, "to")
        body == param(doc, "message")
        Respond(code, resp) ==
            [call |-> FALSE, to |-> JNull, body |-> JNull, code |-> code, resp |-> resp]
    IN  IF doc.t = "raise" THEN Respond(400, BadRequest)
        ELSE IF doc.t # "obj" THEN Respond(500, None)
        ELSE IF missing_field(to, body)
        THEN Respond(400, [error |-> "missing 'to' or 'message'"])
        ELSE [call |-> TRUE, to |-> to, body |-> body, code |-> 0, resp |-> None]

\* One call of client.messages.create: its arguments and what it did
\* (message: the object it returned, [ok |-> FALSE, ...] when it raised).
create_call(to, body, message) ==
    [body |-> body, from_ |-> TWILIO_NUMBER, to |-> to, returned |-> message]

\* The row saved for a sent message.
outbound_message(to, body, message) ==
    Message(message.sid, JStr(TWILIO_NUMBER), to, body, "outbound", message.status)

\* Mutation of send_sms_return: a failed send is saved too.
send_sms_return_saves_failed(db, now, to, body, message) ==
    LET calls == <<create_call(to, body, message)>>
    IN  IF ~message.ok
        THEN Result(db_add_commit(db, Message(None, JStr(TWILIO_NUMBER), to, body,
                                              "outbound", "failed"), now),
                    500, None, calls)
        ELSE Result(db_add_commit(db, outbound_message(to, body, message), now),
                    200, [status |-> "queued", sid |-> message.sid], calls)

\* send_sms from the return of client.messages.create on.  An exception it
\* raises is not caught: 500 and nothing saved.
send_sms_return(db, now, to, body, message) ==
    LET calls == <<create_call(to, body, message)>>
        msg == outbound_message(to, body, message)
    IN  IF ~message.ok THEN ServerError(db, calls)
        ELSE IF ~can_commit(msg) THEN ServerError(db, calls)
        ELSE Result(db_add_commit(db, msg, now),
                    200, [status |-> "queued", sid |-> message.sid], calls)

\* --------------------------------------------------------- receive_sms
\* payload_data.get("webhook", {}).get("request", {}).get("parameters", {})
msg_data(payload) ==
    dict_get(dict_get(dict_get(json_loads(payload), "webhook", EmptyDict),
                      "request", EmptyDict),
             "parameters", EmptyDict)

\* The three locals after the "if payload: try: ... except" block: all None
\* when there is no payload or anything in the block raised (the three
\* assignments come after the last call that can raise on a dict).
payload_fields(payload) ==
    LET data == IF payload_given(payload) THEN msg_data(payload) ELSE Raised
    IN  IF data.t # "obj"
        THEN [from_number |-> JNull, to_number |-> JNull, body |-> JNull]
        ELSE [from_number |-> param(data, "From"),
              to_number |-> param(data, "To"),
              body |-> Or(param(data, "Body"), param(data, "SmsBody"))]

\* Mutation of form_fallback: "x is None" for "not x".
form_fallback_none_only(x, form, key) == IF x = JNull THEN form_get(form, key) ELSE x

\* if not x: x = request.form.get(key)
form_fallback(x, form, key) == IF ~Truthy(x) THEN form_get(form, key) ELSE x

\* The sender, recipient and body receive_sms passes to Message(...).
inbound_fields(payload, form) ==
    LET f == payload_fields(payload)
    IN  [from_number |-> form_fallback(f.from_number, form, "From"),
         to_number |-> form_fallback(f.to_number, form, "To"),
         body |-> form_fallback(f.body, form, "Body")]

\* The row saved for a received message.
inbound_message(f) ==
    Message(None, f.from_number, f.to_number, f.body, "inbound", "received")

\* The commit is outside the try block: when it raises, the answer is 500.
receive_sms(db, now, payload, form) ==
    LET msg == inbound_message(inbound_fields(payload, form))
    IN  IF ~can_commit(msg) THEN ServerError(db, <<>>)
        ELSE Result(db_add_commit(db, msg, now), 200, ACK, <<>>)

\* ----------------------------------------------------- status_callback
\* msg = Message.query.filter_by(sid=sid).first(): the attributes the
\* session keeps of the row found; id 0 when there is none.
status_lookup(db, sid) ==
    LET i == first_by_sid(db, sid)
    IN  IF i = 0 THEN [id |-> 0, status |-> None, error_code |-> None]
        ELSE [id |-> i, status |-> db[i].status, error_code |-> db[i].error_code]

\* status_callback from db.session.commit() on, for the row of this id
\* (0: none found) with these attributes changed.
status_commit(db, id, changed, status, error_code) ==
    Result(IF id = 0 THEN db ELSE update_by_id(db, id, changed, status, error_code),
           204, "", <<>>)

\* status_callback with no other request served in its course.
status_callback(db, sid, status, error_code) ==
    LET msg == status_lookup(db, sid)
    IN  status_commit(db, msg.id, set_status(msg, status, error_code), status, error_code)

\* ---------------------------------------------------- get_all_messages
\* m.timestamp.strftime("%Y-%m-%d %H:%M:%S"): the timestamp cut to the second.
strftime(timestamp) == timestamp \div TicksPerSecond

\* Message.query.order_by(Message.timestamp.desc()).all(): position k holds
\* the row with k-1 rows before it.  Rows of equal timestamp come in id
\* order, as SQLite's sorter returns them.
order_by_timestamp_desc(db) ==
    LET before(i) == {j \in 1..Len(db) :
                        \/ db[j].timestamp > db[i].timestamp
                        \/ db[j].timestamp = db[i].timestamp /\ j < i}
    IN  [k \in 1..Len(db) |->
            db[CHOOSE i \in 1..Len(db) : Cardinality(before(i)) = k - 1]]

\* One element of the JSON array.
serialize(m) == [m EXCEPT !.timestamp = strftime(m.timestamp)]

\* Mutation of get_all_messages: listing marks the received messages read.
get_all_messages_marks_read(db) ==
    LET msgs == order_by_timestamp_desc(db)
    IN  Result([i \in 1..Len(db) |->
                   IF db[i].direction = "inbound"
                   THEN [db[i] EXCEPT !.status = "read"] ELSE db[i]],
               200, [k \in 1..Len(msgs) |-> serialize(msgs[k])], <<>>)

get_all_messages(db) ==
    LET msgs == order_by_timestamp_desc(db)
    IN  Result(db, 200, [k \in 1..Len(msgs) |-> serialize(msgs[k])], <<>>)

\* ------------------------------------------------------------- inputs
\* The text of a request body or of the Payload form field: absent, empty,
\* no JSON, or the JSON text of a document.
Absent == [kind |-> "absent", doc |-> JNull]
Empty == [kind |-> "empty", doc |-> JNull]
Invalid == [kind |-> "invalid", doc |-> JNull]
Json(doc) == [kind |-> "json", doc |-> doc]

\* ["x"], {"k": "x"}, 15551230000, 0, 2^63 and "\ud800" as json.loads
\* returns them.
ListOfOne == JList([k \in {"0"} |-> JStr("x")])
DictOfOne == JObj([k \in {"k"} |-> JStr("x")])
PhoneNumber == JNum(FALSE, <<1, 5, 5, 5, 1, 2, 3, 0, 0, 0, 0>>)
Zero == JNum(FALSE, <<0>>)
TooLarge == JNum(FALSE, MinInt64)
Surrogate == JStr("<U+D800>")

\* The bodies of POST /send-sms: no JSON, JSON that is no object, and
\* objects with "to" and "message" absent, empty or given, as text the
\* database stores or as a value it refuses.
SendDicts ==
    {[k \in {"to"} |-> JStr("+15551234567")],
     [to |-> JStr(""), message |-> JStr("hi")],
     [to |-> JStr("+15551234567"), message |-> JStr("hi")],
     [to |-> JStr("+15551234567"), message |-> Surrogate],
     [to |-> TooLarge, message |-> JStr("hi")]}
SendBodies == {Invalid, Json(EmptyList)} \cup {Json(JObj(d)) : d \in SendDicts}

\* What client.messages.create does: it raises, or returns a message with
\* a sid and the status "queued".  The provider may return the same sid
\* twice; nothing in the code relies on it being new.
ProviderSids == {"SM1"}
ProviderFailure == [ok |-> FALSE, sid |-> None, status |-> None]
ProviderOutcomes ==
    {ProviderFailure} \cup {[ok |-> TRUE, sid |-> s, status |-> "queued"] : s \in ProviderSids}

\* The form of POST /sms/status: MessageSid absent, stored, or unknown.
StatusSids == {None, "SM1", "SM9"}
StatusUpdates ==
    {[status |-> "delivered", error_code |-> None],
     [status |-> "failed", error_code |-> "30003"]}

\* The form of /receive-sms: the nested payload and the flat fields.
Envelope(parameters) ==
    JObj([webhook |-> JObj([request |-> JObj([parameters |-> parameters])])])

\* The parameters of the nested payload: every kind of value under From;
\* Body and SmsBody absent, empty or given; To; all the keys together.
FromValues ==
    {JNull, JStr(""), JStr("nested"), PhoneNumber, TooLarge, Surrogate,
     JBool(TRUE), JBool(FALSE), ListOfOne, EmptyList, DictOfOne, EmptyDict}
FromDicts == {NoMembers} \cup {[k \in {"From"} |-> v] : v \in FromValues}
BodyDicts ==
    {NoMembers,
     [k \in {"Body"} |-> JStr("other")],
     [k \in {"Body"} |-> ListOfOne],
     [k \in {"Body"} |-> JBool(TRUE)],
     [Body |-> JBool(FALSE), SmsBody |-> DictOfOne],
     [k \in {"SmsBody"} |-> JStr("nested")],
     [Body |-> JStr(""), SmsBody |-> JStr("nested")],
     [Body |-> JStr("other"), SmsBody |-> JStr("nested")]}
ToDicts ==
    {[k \in {"To"} |-> JStr("nested")],
     [k \in {"To"} |-> Zero],
     [k \in {"To"} |-> JBool(TRUE)],
     [k \in {"To"} |-> EmptyDict],
     [From |-> JStr("nested"), To |-> JStr("nested"), Body |-> JStr("nested")],
     [From |-> JStr(""), To |-> Zero, Body |-> JStr("other"), SmsBody |-> JStr("nested")]}
ParamDicts == FromDicts \cup BodyDicts \cup ToDicts
Forms ==
    {[From |-> None, To |-> None, Body |-> None],
     [From |-> None, To |-> "flat", Body |-> "flat"],
     [From |-> "flat", To |-> "flat", Body |-> "flat"]}

BrokenDocs ==
    {JNull, EmptyList, JStr("text"), JNum(FALSE, <<7>>), JBool(TRUE), EmptyDict,
     JObj([webhook |-> JNull]), JObj([webhook |-> EmptyDict]),
     JObj([webhook |-> JObj([request |-> ListOfOne])]),
     JObj([webhook |-> JObj([request |-> EmptyDict])]),
     Envelope(JStr("text")), Envelope(JNull), Envelope(EmptyList)}
Payloads ==
    {Absent, Empty, Invalid} \cup {Json(d) : d \in BrokenDocs}
        \cup {Json(Envelope(JObj(p))) : p \in ParamDicts}

\* The inbound requests of the full service model: the flat form alone.
FewPayloads == {Absent}
FewForms == {[k \in {"From", "To", "Body"} |-> "flat"]}

\* ------------------------------------------------------------ actions
NoRequest == [op |-> "none", req |-> None, code |-> 0, body |-> None, calls |-> <<>>]

\* The service starts on the table db.create_all() makes; no request yet.
Init ==
    /\ store = <<>>
    /\ pending = EmptyBag
    /\ loaded = EmptyBag
    /\ pre = <<>>
    /\ last = NoRequest

\* The bounds of a run: rows in the table, requests in progress, clock
\* readings.
Scope(rows, requests, ticks) ==
    [rows |-> rows, inprogress |-> requests, clock |-> ticks]

\* The requests that have begun and are not yet answered.
InProgress == BagCardinality(pending) + BagCardinality(loaded)

\* What datetime.utcnow() may return at an INSERT: the wall clock is not
\* the program's, and may have been set forward or back since it was last
\* read.
Clock(b) == 0..b.clock

\* One request answered: the table committed, the response returned.
Handle(op, req, r, b) ==
    /\ Len(r.db) <= b.rows
    /\ store' = r.db
    /\ pre' = store
    /\ last' = [op |-> op, req |-> req, code |-> r.code, body |-> r.body,
                calls |-> r.calls]

\* One request begun and not yet answered: the table is as it was.
Begin(op, req) ==
    /\ pre' = store
    /\ last' = [op |-> op, req |-> req, code |-> 0, body |-> None, calls |-> <<>>]
    /\ UNCHANGED store

\* The requests in progress with one more, and with one less.
With(q, e) == q (+) SetToBag({e})
Without(q, e) == q (-) SetToBag({e})

\* POST /send-sms arrives and runs up to the provider call: it is answered
\* at once (400, 500), or waits in client.messages.create.
SendSms(b) ==
    /\ \E data \in SendBodies :
        LET q == send_sms_request(data)
        IN  IF q.call
            THEN /\ InProgress < b.inprogress
                 /\ Begin("send_call", [data |-> data])
                 /\ pending' = With(pending, data)
            ELSE /\ Handle("send", [data |-> data], Result(store, q.code, q.resp, <<>>), b)
                 /\ UNCHANGED pending
    /\ UNCHANGED loaded

\* client.messages.create returns or raises in one of the waiting requests,
\* which runs to its end.
SendReturn(b) ==
    /\ \E data \in BagToSet(pending), message \in ProviderOutcomes, now \in Clock(b) :
        LET q == send_sms_request(data)
        IN  /\ Handle("send", [data |-> data],
                      send_sms_return(store, now, q.to, q.body, message), b)
            /\ pending' = Without(pending, data)
    /\ UNCHANGED loaded

ReceiveSms(b) ==
    /\ \E payload \in FewPayloads, form \in FewForms, now \in Clock(b) :
        Handle("receive", [payload |-> payload, form |-> form],
               receive_sms(store, now, payload, form), b)
    /\ UNCHANGED <<pending, loaded>>

\* POST /sms/status arrives and looks its row up: without one it is
\* answered at once, with one it sets the two attributes and goes on to
\* the commit.
StatusCallback(b) ==
    /\ \E sid \in StatusSids, u \in StatusUpdates :
        LET req == [sid |-> sid, status |-> u.status, error_code |-> u.error_code]
            msg == status_lookup(store, sid)
        IN  IF msg.id # 0
            THEN /\ InProgress < b.inprogress
                 /\ Begin("status_lookup", req)
                 /\ loaded' = With(loaded, [req |-> req, id |-> msg.id,
                                            changed |-> set_status(msg, u.status,
                                                                   u.error_code)])
            ELSE /\ Handle("status", req,
                           status_commit(store, 0, {}, u.status, u.error_code), b)
                 /\ UNCHANGED loaded
    /\ UNCHANGED pending

\* One of the status callbacks that found a row commits and is answered.
StatusCommit(b) ==
    /\ \E e \in BagToSet(loaded) :
        /\ Handle("status", e.req,
                  status_commit(store, e.id, e.changed, e.req.status, e.req.error_code), b)
        /\ loaded' = Without(loaded, e)
    /\ UNCHANGED pending

GetAllMessages(b) ==
    /\ Handle("list", None, get_all_messages(store), b)
    /\ UNCHANGED <<pending, loaded>>

Service(b) ==
    \/ SendSms(b)
    \/ SendReturn(b)
    \/ ReceiveSms(b)
    \/ StatusCallback(b)
    \/ StatusCommit(b)
    \/ GetAllMessages(b)

Next == Service(Scope(MaxRows, MaxInProgress, MaxClock))

Spec == Init /\ [][Next]_vars

NextOverlap == Service(Scope(MoreRows, MoreInProgress, MoreClock))

SpecOverlap == Init /\ [][NextOverlap]_vars

\* The inbound handler on every shape of request.
ReceiveAny(b) ==
    /\ \E payload \in Payloads, form \in Forms, now \in Clock(b) :
        Handle("receive", [payload |-> payload, form |-> form],
               receive_sms(store, now, payload, form), b)
    /\ UNCHANGED <<pending, loaded>>

NextInbound == ReceiveAny(Scope(MaxInbound, 0, 0))

SpecInbound == Init /\ [][NextInbound]_vars

\* ------------------------------------------------------------- claims
\* The rows the last step added, and what became of the rows it found.
Added == Len(store) - Len(pre)
NewRow == store[Len(store)]
OldRowsKept == Len(store) >= Len(pre) /\ SubSeq(store, 1, Len(pre)) = pre

\* The JSON array GET /messages would return now.
Listing == get_all_messages(store).body

\* What the body of the last send request holds under a key, None when the
\* body is no JSON object or has no such key; and whether that is a
\* non-empty string.
SendField(key) ==
    LET doc == json_loads(last.req.data)
    IN  IF doc.t = "obj" /\ key \in DOMAIN doc.m THEN doc.m[key] ELSE JNull
Given(x) == x.t = "str" /\ x.v # ""

\* The last step answered a send request: one without "to" or "message",
\* or one with both.
SendInvalid ==
    last.op = "send" /\ (~Truthy(SendField("to")) \/ ~Truthy(SendField("message")))
SendValid ==
    last.op = "send" /\ Given(SendField("to")) /\ Given(SendField("message"))
ProviderFailed == last.calls # <<>> /\ ~last.calls[1].returned.ok

\* C1: a status callback whose MessageSid is absent, or equals the sid of no
\* stored row, changes no row and is answered 204 with an empty body.
C1_NoMatchChangesNothing ==
    (/\ last.op = "status"
     /\ \/ last.req.sid = None
        \/ \A i \in 1..Len(pre) : pre[i].sid # last.req.sid)
    => store = pre /\ last.code = 204 /\ last.body = ""

\* C2: a status callback whose MessageSid equals the sid of a stored row
\* leaves the first such row with the status and error_code it carries, and
\* changes nothing else.
C2_FirstMatchUpdated ==
    (/\ last.op = "status"
     /\ last.req.sid # None
     /\ \E i \in 1..Len(pre) : pre[i].sid = last.req.sid)
    => LET k == CHOOSE i \in 1..Len(pre) :
                    /\ pre[i].sid = last.req.sid
                    /\ \A j \in 1..(i - 1) : pre[j].sid # last.req.sid
       IN  /\ Len(store) = Len(pre)
           /\ store[k] = [pre[k] EXCEPT !.status = last.req.status,
                                        !.error_code = last.req.error_code]
           /\ \A j \in 1..Len(pre) : j # k => store[j] = pre[j]

\* C3: a send request without "to" or without "message" (absent or empty) is
\* answered 400 with an error body, calls the provider not at all and leaves
\* the table as it was.
C3_InvalidSendRejected ==
    SendInvalid
    => /\ last.code = 400
       /\ DOMAIN last.body \in {{"error"}, {"html"}}
       /\ last.calls = <<>>
       /\ store = pre

\* C4: a send request with "to" and "message" whose provider call succeeds
\* calls the provider once and adds one row: outbound, to_number and body as
\* requested, sid and status as the provider returned; no other row changes.
C4_ValidSendInsertsOne ==
    (SendValid /\ ~ProviderFailed)
    => /\ Len(last.calls) = 1
       /\ last.calls[1].to = SendField("to")
       /\ last.calls[1].body = SendField("message")
       /\ last.code = 200
       /\ Added = 1
       /\ OldRowsKept
       /\ NewRow.direction = "outbound"
       /\ NewRow.to_number = SendField("to").v
       /\ NewRow.body = SendField("message").v
       /\ NewRow.sid = last.calls[1].returned.sid
       /\ NewRow.status = last.calls[1].returned.status

\* C5: every inbound request adds one row (inbound, status "received", sid
\* NULL), with NULL for what the request does not carry, changes no other
\* row and is answered 200 with the fixed acknowledgement.
C5_InboundAlwaysInserted ==
    last.op = "receive"
    => /\ Added = 1
       /\ OldRowsKept
       /\ NewRow.direction = "inbound"
       /\ NewRow.status = "received"
       /\ NewRow.sid = None
       /\ NewRow.error_code = None
       /\ last.code = 200
       /\ last.body = ACK
       /\ last.calls = <<>>
       /\ ~payload_given(last.req.payload)
            => /\ NewRow.from_number = last.req.form["From"]
               /\ NewRow.to_number = last.req.form["To"]
               /\ NewRow.body = last.req.form["Body"]

\* C6: right after a request that added a row, the listing starts with that
\* row.
C6_NewRowListedFirst ==
    (last.op \in {"send", "receive"} /\ Added = 1)
    => Listing[1].id = NewRow.id

\* C7: after a status callback (X, "delivered", no error code),
\* every sent row with sid X has status "delivered", in the table and in
\* the listing, whatever else the table holds.
C7_EverySentRowDelivered ==
    (/\ last.op = "status"
     /\ last.req.sid # None
     /\ last.req.status = "delivered"
     /\ last.req.error_code = None)
    => \A i \in 1..Len(pre) :
          (pre[i].direction = "outbound" /\ pre[i].sid = last.req.sid)
          => /\ store[i] = [pre[i] EXCEPT !.status = "delivered", !.error_code = None]
             /\ \E k \in 1..Len(Listing) : Listing[k].id = i
             /\ \A k \in 1..Len(Listing) :
                    Listing[k].id = i => Listing[k].status = "delivered"

\* C8: no step removes a row or changes a row's id, sid, numbers, body,
\* direction or timestamp; only a status callback changes a row at all; a
\* row is created with error_code NULL; listing changes nothing.
C8_RowsOnlyChangeByStatus ==
    /\ Len(store) >= Len(pre)
    /\ \A i \in 1..Len(pre) :
          /\ store[i] = [pre[i] EXCEPT !.status = store[i].status,
                                       !.error_code = store[i].error_code]
          /\ last.op # "status" => store[i] = pre[i]
    /\ \A i \in (Len(pre) + 1)..Len(store) : store[i].error_code = None
    /\ last.op = "list" => store = pre

C8_Witness ==
    /\ last.op = "receive"
    /\ Added = 1
    /\ loaded # EmptyBag
    /\ Len(pre) = 1
    /\ pre[1].direction = "outbound"
    /\ pre[1].error_code = "30003"
    /\ store[1] = pre[1]
    /\ store[2].timestamp # store[1].timestamp

\* What the last inbound request's nested payload holds: whether it parsed
\* down to the parameters, whether these hold a key, and a true value for it.
Parsed(payload) == payload_given(payload) /\ msg_data(payload).t = "obj"
Has(payload, key) == Parsed(payload) /\ key \in DOMAIN msg_data(payload).m
Nested(payload, key) == msg_data(payload).m[key]
HasValue(payload, key) == Has(payload, key) /\ Truthy(Nested(payload, key))

\* C9 as claimed: a field is the nested payload's when that holds the key
\* (body: Body, else SmsBody), else the flat form field's.
C9_NestedWhenContained ==
    (last.op = "receive" /\ Added = 1)
    => LET p == last.req.payload
           form == last.req.form
       IN  /\ NewRow.from_number =
                 IF Has(p, "From") THEN sql_bind(Nested(p, "From")) ELSE form["From"]
           /\ NewRow.to_number =
                 IF Has(p, "To") THEN sql_bind(Nested(p, "To")) ELSE form["To"]
           /\ NewRow.body =
                 IF Has(p, "Body") THEN sql_bind(Nested(p, "Body"))
                 ELSE IF Has(p, "SmsBody") THEN sql_bind(Nested(p, "SmsBody"))
                 ELSE form["Body"]

\* The field C9, amended, names: the nested payload's value for the first of
\* the keys it holds a true value for, else the flat form field.
Chosen(p, form, keys, flat) ==
    IF HasValue(p, keys[1]) THEN Nested(p, keys[1])
    ELSE IF Len(keys) = 2 /\ HasValue(p, keys[2]) THEN Nested(p, keys[2])
    ELSE form_get(form, flat)

\* C9, amended: a field is the nested payload's when that holds a value that
\* is not null, empty, zero or false for the key (body: Body, else SmsBody),
\* else the flat form field's: these are the values the handler takes for
\* the record, and those of the row it stores; a payload that does not
\* parse fails no request and leaves all three fields to the flat form.
C9_NestedWhenTrue ==
    last.op = "receive"
    => LET p == last.req.payload
           form == last.req.form
           from_number == Chosen(p, form, <<"From">>, "From")
           to_number == Chosen(p, form, <<"To">>, "To")
           body == Chosen(p, form, <<"Body", "SmsBody">>, "Body")
       IN  /\ inbound_fields(p, form) =
                 [from_number |-> from_number, to_number |-> to_number, body |-> body]
           /\ Added = 1
                => /\ NewRow.from_number = sql_bind(from_number)
                   /\ NewRow.to_number = sql_bind(to_number)
                   /\ NewRow.body = sql_bind(body)
           /\ (payload_given(p) /\ ~Parsed(p))
                => /\ last.code = 200
                   /\ Added = 1
                   /\ NewRow.from_number = form["From"]
                   /\ NewRow.to_number = form["To"]
                   /\ NewRow.body = form["Body"]

C9_Witness ==
    /\ last.op = "receive"
    /\ Has(last.req.payload, "From")
    /\ Nested(last.req.payload, "From") = JStr("")
    /\ Has(last.req.payload, "To")
    /\ Nested(last.req.payload, "To") = Zero
    /\ HasValue(last.req.payload, "Body")
    /\ HasValue(last.req.payload, "SmsBody")
    /\ Nested(last.req.payload, "Body") # Nested(last.req.payload, "SmsBody")
    /\ Added = 1
    /\ NewRow.from_number = "flat"
    /\ NewRow.to_number = "flat"
    /\ NewRow.body = "other"

\* C10: when the provider call of a send request fails, the request is
\* answered 500, the provider was called once, and the table is as it was;
\* nor does the request change the table before the call.
C10_ProviderFailureSavesNothing ==
    /\ last.op = "send_call" => store = pre /\ last.calls = <<>>
    /\ (SendValid /\ ProviderFailed)
       => /\ last.code = 500
          /\ Len(last.calls) = 1
          /\ store = pre

C10_Witness ==
    /\ SendValid
    /\ ProviderFailed
    /\ last.code = 500
    /\ Len(pre) = 1
    /\ store = pre
====
